---- MODULE Spec2Model ----
(***************************************************************************)
(* Mesh topology and beamsplitter-error model of neurophox/meshmodel.py.   *)
(*                                                                         *)
(* numpy arrays are 0-based functions: a 1-D array of length n has domain  *)
(* 0..n-1, a 2-D array of shape (r, c) is a 1-D array of r rows.  Python's *)
(* None is the empty tuple <<>> for an optional scalar (a given value v is *)
(* <<v>>) and the record NoneArr for an optional array.                    *)
(***************************************************************************)
EXTENDS Integers, Sequences, FiniteSets, TLC

VARIABLES obj, exc, call, rng, ret, first, pc, loc, mutex, serialized

vars == <<obj, exc, call, rng, ret, first, pc, loc, mutex, serialized>>

(***************************************************************************)
(* Bounds of the model.                                                    *)
(***************************************************************************)
MaxUnits == 4
MaxLayers == 3
MaxBuilderUnits == 4
MaxBuilderLayers == 4
MaxButterflyLayers == 3
MaxErrUnits == 3
MaxBsError == 2
MaxSeed == 1
MaxBlockLayers == 2

(***************************************************************************)
(* Array helpers.                                                          *)
(***************************************************************************)
Size(a) == Cardinality(DOMAIN a)

Min(a, b) == IF a < b THEN a ELSE b

Max(a, b) == IF a < b THEN b ELSE a

Zeros2(r, c) == [i \in 0..(r - 1) |-> [j \in 0..(c - 1) |-> 0]]

\* The bijections on {0..n-1}, as index arrays.
Perms(n) == {p \in [0..(n - 1) -> 0..(n - 1)] : \A i, j \in 0..(n - 1) : p[i] = p[j] => i = j}

NoneArr == [a |-> <<>>, given |-> FALSE]

SomeArr(a) == [a |-> a, given |-> TRUE]

NoExc == [type |-> "none", line |-> 0]

Raise(type, line) == [type |-> type, line |-> line]

(***************************************************************************)
(* MeshModel.__init__, lines 15-36, in the order the statements run.       *)
(***************************************************************************)

\* numpy's index normalisation on an axis of length n: a negative index
\* counts from the end.
WrapIndex(v, n) == IF v < 0 THEN v + n ELSE v

\* Line 20 raises IndexError when an entry of a row of perm_idx is no valid
\* index of axis 0 of inv_perm_idx (whose length is the number of rows).
InvPermRaises(perm_idx) ==
    \E idx \in DOMAIN perm_idx : \E j \in DOMAIN perm_idx[idx] :
        perm_idx[idx][j] \notin (0 - Size(perm_idx))..(Size(perm_idx) - 1)

\* One pass of the loop body, line 20: inv_perm_idx[perm_idx] = idx assigns
\* the scalar idx to every ROW of inv_perm_idx that the entries of the
\* current row of perm_idx select.
InvPermStep(inv, row, idx) ==
    [r \in DOMAIN inv |->
        IF \E j \in DOMAIN row : WrapIndex(row[j], Size(inv)) = r
        THEN [c \in DOMAIN inv[r] |-> idx]
        ELSE inv[r]]

RECURSIVE InvPermLoop(_, _, _)
InvPermLoop(perm_idx, inv, idx) ==
    IF idx >= Size(perm_idx) THEN inv
    ELSE InvPermLoop(perm_idx, InvPermStep(inv, perm_idx[idx], idx), idx + 1)

\* Lines 18-20.
InvPermIdx(perm_idx, units) ==
    InvPermLoop(perm_idx, Zeros2(Size(perm_idx), units), 0)

\* The stop of the slice [:c] on an axis of length n.
SliceStop(n, c) == IF c < 0 THEN Max(n + c, 0) ELSE Min(c, n)

\* A row whose 1s are packed to the right instead of the left.
MaskRowUnpacked(width, count) == [k \in 0..(width - 1) |-> IF k >= width - SliceStop(width, count) THEN 1 ELSE 0]

\* Line 32: a zero row with the slice [:int(num_mzis[layer])] set to 1.
MaskRow(width, count) == [k \in 0..(width - 1) |-> IF k < SliceStop(width, count) THEN 1 ELSE 0]

\* Lines 26 and 31-32.
Mask(num_layers, units, num_mzis) ==
    [layer \in 0..(num_layers - 1) |-> MaskRow(units \div 2, num_mzis[layer])]

\* The exception the constructor raises, NoExc when it returns.
InitRaises(perm_idx, num_mzis) ==
    LET units == Size(perm_idx[0])
        num_layers == Size(perm_idx) - 1
    IN  IF InvPermRaises(perm_idx) THEN Raise("IndexError", 20)
        ELSE IF num_layers >= 1 /\ ~num_mzis.given THEN Raise("TypeError", 32)
        ELSE IF num_layers > Size(num_mzis.a) THEN Raise("IndexError", 32)
        ELSE IF ~num_mzis.given THEN Raise("AttributeError", 33)
        ELSE IF Size(num_mzis.a) # num_layers THEN Raise("ValueError", 34)
        ELSE IF units < 2 THEN Raise("ValueError", 36)
        ELSE NoExc

\* The object the constructor leaves when it returns.
MeshModelObj(perm_idx, num_mzis, bs_error, bs_error_seed, use_different_errors) ==
    LET units == Size(perm_idx[0])
        num_layers == Size(perm_idx) - 1
    IN  [perm_idx |-> perm_idx,
         units |-> units,
         num_layers |-> num_layers,
         num_mzis |-> num_mzis.a,
         bs_error |-> bs_error,
         bs_error_seed |-> bs_error_seed,
         use_different_errors |-> use_different_errors,
         inv_perm_idx |-> InvPermIdx(perm_idx, units),
         mask |-> Mask(num_layers, units, num_mzis.a)]

\* MeshModel(...): the pair (exception, object); no object when it raises.
MeshModelInit(perm_idx, num_mzis, bs_error, bs_error_seed, use_different_errors) ==
    LET e == InitRaises(perm_idx, num_mzis)
    IN  [obj |-> IF e = NoExc
                 THEN <<MeshModelObj(perm_idx, num_mzis, bs_error, bs_error_seed,
                                     use_different_errors)>>
                 ELSE <<>>,
         exc |-> e]

(***************************************************************************)
(* The process-wide generator np.random: a state, np.random.seed, which    *)
(* sets the state from the seed alone, and a standard-normal draw, which   *)
(* reads a value off the state and advances it.  The generator is a small  *)
(* full-period congruential one and the normal values are integers.        *)
(***************************************************************************)
RngStates == 0..3

\* np.random.seed(s).
SeedState(s) == (3 * s + 1) % 4

\* The state after one draw.
NextState(g) == (5 * g + 3) % 4

\* The value the draw made in state g returns.
Normal(g) == (g % 5) - 2

RECURSIVE Advance(_, _)
Advance(g, n) == IF n <= 0 THEN g ELSE Advance(NextState(g), n - 1)

\* np.random.randn(rows, cols), filled in row-major order from state g.
Randn(g, rows, cols) ==
    [l \in 0..(rows - 1) |-> [k \in 0..(cols - 1) |-> Normal(Advance(g, l * cols + k))]]

(***************************************************************************)
(* The error accessors, lines 50-68.  Each maps the object and the         *)
(* generator state before the call to the returned value and the state     *)
(* after it.                                                               *)
(***************************************************************************)

ReseedSkipped(g, bs_error_seed, offset) == g

\* Lines 51-52, 58-59 and 63-64: reseed when a seed is configured.
Reseed(g, bs_error_seed, offset) ==
    IF bs_error_seed # <<>> THEN SeedState(bs_error_seed[1] + offset) ELSE g

ErrorFieldUnmasked(m, g) ==
    LET z == Randn(g, m.num_layers, m.units \div 2)
    IN  [l \in DOMAIN z |-> [k \in DOMAIN z[l] |-> z[l][k] * m.bs_error]]

\* Lines 53-54, 60-61 and 65: randn(num_layers, units // 2) * bs_error * mask
\* (self.mask is never None after construction).
ErrorField(m, g) ==
    LET z == Randn(g, m.num_layers, m.units \div 2)
    IN  [l \in DOMAIN z |-> [k \in DOMAIN z[l] |-> z[l][k] * m.bs_error * m.mask[l][k]]]

\* The generator state after one error field has been drawn.
AfterField(m, g) == Advance(g, m.num_layers * (m.units \div 2))

\* Lines 50-54; right + bs_error_seed adds 1 for the right facet.
get_bs_error_matrix(m, right, g) ==
    LET g1 == Reseed(g, m.bs_error_seed, IF right THEN 1 ELSE 0)
    IN  [rng |-> AfterField(m, g1), ret |-> ErrorField(m, g1)]

mzi_error_matrices_redraw(m, g) ==
    LET g1 == Reseed(g, m.bs_error_seed, 0)
        e_l == ErrorField(m, g1)
        g2 == AfterField(m, g1)
        g3 == IF m.use_different_errors THEN Reseed(g2, m.bs_error_seed, 1) ELSE g2
    IN  [rng |-> AfterField(m, g3), ret |-> <<e_l, ErrorField(m, g3)>>]

mzi_error_matrices_same_seed(m, g) ==
    LET g1 == Reseed(g, m.bs_error_seed, 0)
        e_l == ErrorField(m, g1)
        g2 == AfterField(m, g1)
        g3 == Reseed(g2, m.bs_error_seed, 0)
    IN  IF m.use_different_errors
        THEN [rng |-> AfterField(m, g3), ret |-> <<e_l, ErrorField(m, g3)>>]
        ELSE [rng |-> g2, ret |-> <<e_l, e_l>>]

\* Lines 57-68.
mzi_error_matrices(m, g) ==
    LET g1 == Reseed(g, m.bs_error_seed, 0)
        e_l == ErrorField(m, g1)
        g2 == AfterField(m, g1)
        g3 == Reseed(g2, m.bs_error_seed, 1)
    IN  IF m.use_different_errors
        THEN [rng |-> AfterField(m, g3), ret |-> <<e_l, ErrorField(m, g3)>>]
        ELSE [rng |-> g2, ret |-> <<e_l, e_l>>]

(***************************************************************************)
(* Permutation generators of neurophox/helpers.py.                         *)
(***************************************************************************)

\* grid_permutation(units, num_layers): num_layers + 1 index arrays, the
\* identity at both boundaries and the alternating brick-wall shifts between.
grid_permutation(units, num_layers) ==
    [i \in 0..num_layers |->
        [j \in 0..(units - 1) |->
            IF i = 0 \/ i = num_layers THEN j
            ELSE IF i % 2 = 1 THEN (j + 1) % units
            ELSE (j + units - 1) % units]]

\* butterfly_permutation(units, frequency): one index array swapping the
\* entries that lie frequency apart.
butterfly_permutation(units, frequency) ==
    [j \in 0..(units - 1) |->
        IF (j \div frequency) % 2 = 0 THEN j + frequency ELSE j - frequency]

RECURSIVE Pow2(_)
Pow2(n) == IF n <= 0 THEN 1 ELSE 2 * Pow2(n - 1)

\* GLOBAL_SEED of neurophox/config.py, the default of bs_error_seed.
GLOBAL_SEED == <<>>

(***************************************************************************)
(* The topology builders, lines 83-124.                                    *)
(***************************************************************************)

\* Line 87: num_layers if num_layers else units (None and 0 are both falsy).
RectangularNumLayers(units, num_layers) ==
    IF num_layers # <<>> /\ num_layers[1] # 0 THEN num_layers[1] ELSE units

\* Lines 89-90.
RectangularNumMzis(units, layers) ==
    [l \in 0..(layers - 1) |-> IF l % 2 = 1 THEN (units - 1) \div 2 ELSE units \div 2]

\* Lines 87-98.
RectangularMeshModel(units, num_layers) ==
    LET layers == RectangularNumLayers(units, num_layers)
    IN  MeshModelInit(grid_permutation(units, layers),
                      SomeArr(RectangularNumMzis(units, layers)), 0, GLOBAL_SEED, FALSE)

\* np.hstack([a, b]).
Hstack(a, b) ==
    [i \in 0..(Size(a) + Size(b) - 1) |-> IF i < Size(a) THEN a[i] ELSE b[i - Size(a)]]

\* np.arange(1, units).
ArangeUp(units) == [i \in 0..(units - 2) |-> 1 + i]

\* np.arange(units - 2, 0, -1).
ArangeDown(units) == [i \in 0..(units - 3) |-> units - 2 - i]

TriangularNumMzisNoRound(units) ==
    LET ramp == Hstack(ArangeUp(units), ArangeDown(units))
    IN  [i \in DOMAIN ramp |-> ramp[i] \div 2]

\* Line 106.
TriangularNumMzis(units) ==
    LET ramp == Hstack(ArangeUp(units), ArangeDown(units))
    IN  [i \in DOMAIN ramp |-> (ramp[i] + 1) \div 2]

\* Lines 105-115.
TriangularMeshModel(units) ==
    MeshModelInit(grid_permutation(units, 2 * units - 3),
                  SomeArr(TriangularNumMzis(units)), 0, GLOBAL_SEED, FALSE)

\* Lines 120-121: np.vstack of one butterfly_permutation per layer.
ButterflyPermIdx(num_layers) ==
    [layer \in 0..(num_layers - 1) |->
        butterfly_permutation(Pow2(num_layers), Pow2(layer))]

\* Lines 120-124: num_mzis is left at its default, None.
ButterflyMeshModel(num_layers) ==
    MeshModelInit(ButterflyPermIdx(num_layers), NoneArr, 0, GLOBAL_SEED, FALSE)

\* get_efficient_coarse_grain_block_sizes and get_default_coarse_grain_block_sizes
\* of neurophox/helpers.py: int(np.rint(np.log2(units))) blocks.
RECURSIVE NumBlocksFrom(_, _)
NumBlocksFrom(units, k) ==
    IF units * units < Pow2(2 * k + 1) THEN k ELSE NumBlocksFrom(units, k + 1)

NumBlocks(units) == NumBlocksFrom(units, 0)

\* The strides of the fixed permutations between the blocks.
CoarseGrainFrequencies(units) ==
    [b \in 0..(NumBlocks(units) - 2) |-> Pow2(b + 1)]

\* The efficient profile: every block has tunable_layers_per_block layers.
get_efficient_coarse_grain_block_sizes(units, tunable_layers_per_block) ==
    <<[b \in 0..(NumBlocks(units) - 1) |-> tunable_layers_per_block],
      CoarseGrainFrequencies(units)>>

\* The default profile: units tunable layers spread over the blocks.
get_default_coarse_grain_block_sizes(units) ==
    <<[b \in 0..(NumBlocks(units) - 1) |->
          units \div NumBlocks(units) + (IF b < units % NumBlocks(units) THEN 1 ELSE 0)],
      CoarseGrainFrequencies(units)>>

\* The number of layers of the first k blocks.
RECURSIVE BlockStart(_, _)
BlockStart(block_sizes, k) ==
    IF k = 0 THEN 0 ELSE BlockStart(block_sizes, k - 1) + block_sizes[k - 1]

\* The block holding row or layer r, counting each block from its start.
RECURSIVE BlockOf(_, _, _)
BlockOf(block_sizes, r, k) ==
    IF k >= Size(block_sizes) - 1 \/ r < BlockStart(block_sizes, k + 1)
    THEN k
    ELSE BlockOf(block_sizes, r, k + 1)

\* prm_permutation of neurophox/helpers.py with butterfly=False: the grid
\* schedules of the blocks stacked, the last row of a block glued to the
\* fixed permutation of its stride and to the first row of the next block.
prm_permutation(units, tunable_block_sizes, sampling_frequencies) ==
    LET blocks == Size(tunable_block_sizes)
        grid(k) == grid_permutation(units, tunable_block_sizes[k])
        fixed(k) == [j \in 0..(units - 1) |-> (j + sampling_frequencies[k]) % units]
        glued(k) == [j \in 0..(units - 1) |->
                        grid(k + 1)[0][fixed(k)[grid(k)[tunable_block_sizes[k]][j]]]]
        row(r) ==
            LET k == IF r = 0 THEN 0 ELSE BlockOf(tunable_block_sizes, r - 1, 0)
                o == r - BlockStart(tunable_block_sizes, k)
            IN  IF o = tunable_block_sizes[k] /\ k < blocks - 1 THEN glued(k) ELSE grid(k)[o]
    IN  [r \in 0..BlockStart(tunable_block_sizes, blocks) |-> row(r)]

\* Lines 157-161: one rectangular profile per block, stacked.
PermutingRectangularNumMzis(units, block_sizes) ==
    [l \in 0..(BlockStart(block_sizes, Size(block_sizes)) - 1) |->
        LET k == BlockOf(block_sizes, l, 0)
        IN  RectangularNumMzis(units, block_sizes[k])[l - BlockStart(block_sizes, k)]]

\* Lines 147-155: the block structure, from the override, the defaults or
\* the two lists given.
PermutingRectangularBlocks(units, tunable_layers_per_block, num_tunable_layers_list, sampling_frequencies) ==
    IF tunable_layers_per_block # <<>>
    THEN get_efficient_coarse_grain_block_sizes(units, tunable_layers_per_block[1])
    ELSE IF ~sampling_frequencies.given \/ ~num_tunable_layers_list.given
         THEN get_default_coarse_grain_block_sizes(units)
         ELSE <<num_tunable_layers_list.a, sampling_frequencies.a>>

\* Lines 142-173: the object keeps block_sizes and sampling_frequencies
\* beside the attributes MeshModel.__init__ sets. theta_init_name is handed
\* to MeshModel.__init__ and read by no statement of either constructor.
PermutingRectangularMeshModel(units, tunable_layers_per_block, num_tunable_layers_list, sampling_frequencies, theta_init_name) ==
    LET b == PermutingRectangularBlocks(units, tunable_layers_per_block,
                                        num_tunable_layers_list, sampling_frequencies)
        r == MeshModelInit(prm_permutation(units, b[1], b[2]),
                           SomeArr(PermutingRectangularNumMzis(units, b[1])), 0, GLOBAL_SEED,
                           FALSE)
        m == r.obj[1]
    IN  IF r.obj = <<>>
        THEN r
        ELSE [obj |-> <<[perm_idx |-> m.perm_idx, units |-> m.units,
                         num_layers |-> m.num_layers, num_mzis |-> m.num_mzis,
                         bs_error |-> m.bs_error, bs_error_seed |-> m.bs_error_seed,
                         use_different_errors |-> m.use_different_errors,
                         inv_perm_idx |-> m.inv_perm_idx, mask |-> m.mask,
                         block_sizes |-> b[1], sampling_frequencies |-> b[2]]>>,
              exc |-> r.exc]

\* PRM.__init__, layers.py lines 79-86: the layer refuses 'haar_prm' with a
\* tunable_layers_per_block, and otherwise wraps the model the builder returns.
PRM(units, tunable_layers_per_block, num_tunable_layers_list, sampling_frequencies, theta_init_name) ==
    IF theta_init_name = "haar_prm" /\ tunable_layers_per_block # <<>>
    THEN [obj |-> <<>>, exc |-> Raise("NotImplementedError", 80)]
    ELSE PermutingRectangularMeshModel(units, tunable_layers_per_block,
                                       num_tunable_layers_list, sampling_frequencies,
                                       theta_init_name)

(***************************************************************************)
(* Construction: one constructor call per behaviour.                       *)
(***************************************************************************)

\* Forward schedules whose rows are bijections: row i is p followed by a
\* rotation by i.
PermSchedules(units, rows) ==
    {[i \in 0..(rows - 1) |-> [j \in 0..(units - 1) |-> (p[j] + i) % units]] :
        p \in Perms(units)}

\* The num_mzis arguments: None, or an array of any length up to
\* MaxLayers + 1 with counts up to one past the widest mask row.
NumMzisInputs ==
    {NoneArr} \cup
    {SomeArr(a) : a \in UNION {[0..(n - 1) -> 0..(MaxUnits \div 2 + 1)] : n \in 0..(MaxLayers + 1)}}

\* The (perm_idx, num_mzis) pairs handed to MeshModel directly: every
\* schedule of bijections with a profile of the right length, and the grid
\* schedule with every profile.
MeshModelInputs ==
    UNION {
        {<<perm_idx, SomeArr(RectangularNumMzis(units, rows - 1))>> :
            perm_idx \in PermSchedules(units, rows)}
        \cup {<<grid_permutation(units, rows - 1), num_mzis>> : num_mzis \in NumMzisInputs} :
        units \in 0..MaxUnits, rows \in 1..(MaxLayers + 1)}

Idle ==
    /\ rng = 0
    /\ ret = <<>>
    /\ first = <<>>
    /\ pc = <<>>
    /\ loc = <<>>
    /\ mutex = 0
    /\ serialized = FALSE

Init ==
    /\ obj = <<>>
    /\ exc = NoExc
    /\ call = [op |-> "none"]
    /\ Idle

\* The outcome of a constructor call c: the exception it raised or the
\* object it returned.
Construct(c, r) ==
    /\ call' = c
    /\ exc' = r.exc
    /\ obj' = r.obj
    /\ UNCHANGED <<rng, ret, first, pc, loc, mutex, serialized>>

NewMeshModel ==
    /\ call.op = "none"
    /\ \E in \in MeshModelInputs :
        Construct([perm_idx |-> in[1], num_mzis |-> in[2], op |-> "MeshModel"],
                  MeshModelInit(in[1], in[2], 0, GLOBAL_SEED, FALSE))

NewRectangular ==
    /\ call.op = "none"
    /\ \E units \in 2..MaxBuilderUnits,
          num_layers \in {<<>>} \cup {<<l>> : l \in 0..MaxBuilderLayers} :
        Construct([units |-> units, num_layers |-> num_layers, op |-> "RectangularMeshModel"],
                  RectangularMeshModel(units, num_layers))

NewTriangular ==
    /\ call.op = "none"
    /\ \E units \in 2..MaxBuilderUnits :
        Construct([units |-> units, op |-> "TriangularMeshModel"],
                  TriangularMeshModel(units))

NewButterfly ==
    /\ call.op = "none"
    /\ \E num_layers \in 1..MaxButterflyLayers :
        Construct([num_layers |-> num_layers, op |-> "ButterflyMeshModel"],
                  ButterflyMeshModel(num_layers))

\* The arguments of the permuting rectangular builder and of its layer:
\* tunable_layers_per_block None or a count; the two lists both None, one
\* given, or both given for two blocks; theta_init_name the default
\* 'haar_prm' or another initializer.
PermutingInputs ==
    LET lists == {<<NoneArr, NoneArr>>}
                 \cup {<<SomeArr([b \in 0..1 |-> n]), NoneArr>> : n \in 1..MaxBlockLayers}
                 \cup {<<SomeArr(a), SomeArr([b \in 0..0 |-> f])>> :
                          a \in [0..1 -> 1..MaxBlockLayers], f \in 1..2}
    IN  {[units |-> units, tunable_layers_per_block |-> t,
          sampling_frequencies |-> l[2], num_tunable_layers_list |-> l[1],
          theta_init_name |-> theta, op |-> op] :
            units \in 2..MaxBuilderUnits,
            op \in {"PermutingRectangularMeshModel", "PRM"},
            t \in {<<>>} \cup {<<n>> : n \in 1..MaxBlockLayers},
            l \in lists,
            theta \in {"haar_prm", "random_theta"}}

NewPermutingRectangular ==
    /\ call.op = "none"
    /\ \E c \in PermutingInputs :
        /\ c.op = "PermutingRectangularMeshModel"
        /\ Construct(c, PermutingRectangularMeshModel(c.units, c.tunable_layers_per_block,
                                                      c.num_tunable_layers_list,
                                                      c.sampling_frequencies,
                                                      c.theta_init_name))

NewPRM ==
    /\ call.op = "none"
    /\ \E c \in PermutingInputs :
        /\ c.op = "PRM"
        /\ Construct(c, PRM(c.units, c.tunable_layers_per_block, c.num_tunable_layers_list,
                            c.sampling_frequencies, c.theta_init_name))

Next ==
    \/ NewMeshModel
    \/ NewRectangular
    \/ NewTriangular
    \/ NewButterfly
    \/ NewPermutingRectangular
    \/ NewPRM

Spec == Init /\ [][Next]_vars

(***************************************************************************)
(* Error sampling: one model is built, then its accessors are called any   *)
(* number of times while other code seeds and draws from the generator.    *)
(***************************************************************************)

\* bs_error_seed: disabled, or a seed.
SeedInputs == {<<>>} \cup {<<s>> : s \in 0..MaxSeed}

\* The models whose accessors are exercised: for each mesh size the grid
\* schedule of the fewest layers that construct, with every in-range profile.
ErrModelInputs ==
    UNION {
        {[perm_idx |-> grid_permutation(units, units - 1), num_mzis |-> SomeArr(a)] :
            a \in [0..(units - 2) -> 0..(units \div 2)]} :
        units \in 2..MaxErrUnits}

InitErr ==
    /\ obj = <<>>
    /\ exc = NoExc
    /\ call = [op |-> "none"]
    /\ rng \in RngStates
    /\ ret = <<>>
    /\ first = <<>>
    /\ pc = <<>>
    /\ loc = <<>>
    /\ mutex = 0
    /\ serialized = FALSE

ErrNewModel ==
    /\ call.op = "none"
    /\ \E in \in ErrModelInputs, bs_error \in 0..MaxBsError, bs_error_seed \in SeedInputs,
          use_different_errors \in BOOLEAN :
        Construct([perm_idx |-> in.perm_idx, num_mzis |-> in.num_mzis, op |-> "MeshModel"],
                  MeshModelInit(in.perm_idx, in.num_mzis, bs_error, bs_error_seed,
                                use_different_errors))

CallGetBsErrorMatrix ==
    /\ obj # <<>>
    /\ \E right \in BOOLEAN :
        LET r == get_bs_error_matrix(obj[1], right, rng)
        IN  /\ call' = [right |-> right, op |-> "get_bs_error_matrix"]
            /\ ret' = r.ret
            /\ rng' = r.rng
    /\ UNCHANGED <<obj, exc, first, pc, loc, mutex, serialized>>

\* first keeps the first pair the property returned on this model, with the
\* generator state that access started from.
CallMziErrorMatrices ==
    /\ obj # <<>>
    /\ LET r == mzi_error_matrices(obj[1], rng)
       IN  /\ call' = [op |-> "mzi_error_matrices", rng_before |-> rng]
           /\ ret' = r.ret
           /\ rng' = r.rng
           /\ first' = IF first = <<>> THEN <<[rng_before |-> rng, val |-> r.ret]>> ELSE first
    /\ UNCHANGED <<obj, exc, pc, loc, mutex, serialized>>

\* Other code calls np.random.seed.
AmbientSeed ==
    /\ \E s \in 0..(MaxSeed + 1) : rng' = SeedState(s)
    /\ UNCHANGED <<obj, exc, call, ret, first, pc, loc, mutex, serialized>>

\* Other code draws from np.random.
AmbientDraw ==
    /\ rng' = NextState(rng)
    /\ UNCHANGED <<obj, exc, call, ret, first, pc, loc, mutex, serialized>>

NextErr ==
    ErrNewModel \/ CallGetBsErrorMatrix \/ CallMziErrorMatrices \/ AmbientSeed \/ AmbientDraw

SpecErr == InitErr /\ [][NextErr]_vars

(***************************************************************************)
(* Two threads, each making one seeded access.  np.random.seed and         *)
(* np.random.randn are each atomic (the generator holds its lock for the   *)
(* whole call); a thread switch can fall between them.  When serialized,   *)
(* the callers wrap every access in one mutex.                             *)
(***************************************************************************)
Threads == {1, 2}

Accessors == {"get_bs_error_matrix_left", "get_bs_error_matrix_right", "mzi_error_matrices"}

\* The seeded models the threads access.
ThreadModels ==
    {MeshModelInit(grid_permutation(2, 2), SomeArr([l \in 0..1 |-> 1]), 1, <<s>>, d).obj[1] :
        s \in 0..MaxSeed, d \in BOOLEAN}

Job(m, op) == [m |-> m, e_l |-> <<>>, op |-> op, value |-> <<>>]

InitThreads ==
    /\ obj = <<>>
    /\ exc = NoExc
    /\ call = [op |-> "none"]
    /\ ret = <<>>
    /\ first = <<>>
    /\ rng \in RngStates
    /\ serialized \in BOOLEAN
    /\ mutex = 0
    /\ loc \in [Threads -> {Job(m, op) : m \in ThreadModels, op \in Accessors}]
    /\ pc = [t \in Threads |-> IF serialized THEN "lock" ELSE "seed"]

Finished == IF serialized THEN "unlock" ELSE "done"

\* The caller takes the mutex before the access.
Acquire(t) ==
    /\ pc[t] = "lock"
    /\ mutex = 0
    /\ mutex' = t
    /\ pc' = [pc EXCEPT ![t] = "seed"]
    /\ UNCHANGED <<obj, exc, call, rng, ret, first, loc, serialized>>

\* The caller gives the mutex back after the access has returned.
Release(t) ==
    /\ pc[t] = "unlock"
    /\ mutex' = 0
    /\ pc' = [pc EXCEPT ![t] = "done"]
    /\ UNCHANGED <<obj, exc, call, rng, ret, first, loc, serialized>>

\* Lines 51-52 and 58-59: the first np.random.seed of the access.
SeedStep(t) ==
    /\ pc[t] = "seed"
    /\ rng' = Reseed(rng, loc[t].m.bs_error_seed,
                      IF loc[t].op = "get_bs_error_matrix_right" THEN 1 ELSE 0)
    /\ pc' = [pc EXCEPT ![t] = "draw"]
    /\ UNCHANGED <<obj, exc, call, ret, first, loc, mutex, serialized>>

\* Lines 54 and 61: the first draw; lines 66-68 when e_r is e_l.
DrawStep(t) ==
    /\ pc[t] = "draw"
    /\ LET e == ErrorField(loc[t].m, rng)
           again == loc[t].op = "mzi_error_matrices" /\ loc[t].m.use_different_errors
       IN  /\ loc' = [loc EXCEPT ![t].e_l = e,
                                 ![t].value = IF again THEN <<>>
                                              ELSE IF loc[t].op = "mzi_error_matrices"
                                                   THEN <<e, e>>
                                                   ELSE e]
           /\ pc' = [pc EXCEPT ![t] = IF again THEN "seed_r" ELSE Finished]
    /\ rng' = AfterField(loc[t].m, rng)
    /\ UNCHANGED <<obj, exc, call, ret, first, mutex, serialized>>

\* Lines 63-64.
SeedRightStep(t) ==
    /\ pc[t] = "seed_r"
    /\ rng' = Reseed(rng, loc[t].m.bs_error_seed, 1)
    /\ pc' = [pc EXCEPT ![t] = "draw_r"]
    /\ UNCHANGED <<obj, exc, call, ret, first, loc, mutex, serialized>>

\* Lines 65 and 68.
DrawRightStep(t) ==
    /\ pc[t] = "draw_r"
    /\ rng' = AfterField(loc[t].m, rng)
    /\ loc' = [loc EXCEPT ![t].value = <<loc[t].e_l, ErrorField(loc[t].m, rng)>>]
    /\ pc' = [pc EXCEPT ![t] = Finished]
    /\ UNCHANGED <<obj, exc, call, ret, first, mutex, serialized>>

NextThreads ==
    \E t \in Threads :
        \/ Acquire(t)
        \/ Release(t)
        \/ SeedStep(t)
        \/ DrawStep(t)
        \/ SeedRightStep(t)
        \/ DrawRightStep(t)

SpecThreads == InitThreads /\ [][NextThreads]_vars

(***************************************************************************)
(* Properties of construction.                                             *)
(***************************************************************************)
Constructed == obj # <<>>

self == obj[1]

Ones(row) == Cardinality({k \in DOMAIN row : row[k] = 1})

\* C1: for every MeshModel built from a schedule of bijections with at
\* least one layer and at least two units, deriving the inverse schedule
\* does not fail, and the inverse schedule inverts every row of the forward
\* one on both sides.
C1_InverseCorrect ==
    (call.op = "MeshModel" /\ Size(call.perm_idx) >= 2 /\ Size(call.perm_idx[0]) >= 2) =>
        /\ exc # Raise("IndexError", 20)
        /\ Constructed =>
            \A i \in DOMAIN self.perm_idx : \A j \in 0..(self.units - 1) :
                /\ self.inv_perm_idx[i][self.perm_idx[i][j]] = j
                /\ self.inv_perm_idx[i][j] \in DOMAIN self.perm_idx[i]
                /\ self.perm_idx[i][self.inv_perm_idx[i][j]] = j

\* C2: a MeshModel call whose profile has a length other than num_layers
\* (shorter or longer), or whose units is below 2, fails with ValueError and
\* returns no object.  Stated of the calls that get past the derivation of
\* the inverse schedule (line 20), whose own failure is the subject of C1.
C2_ConfigError ==
    (/\ call.op = "MeshModel"
     /\ call.num_mzis.given
     /\ exc # Raise("IndexError", 20)
     /\ \/ Size(call.num_mzis.a) # Size(call.perm_idx) - 1
        \/ Size(call.perm_idx[0]) < 2) =>
        exc.type = "ValueError" /\ ~Constructed

\* C3 as stated: in every constructed model the mask has shape
\* (num_layers, units div 2), row l holds exactly num_mzis[l] ones, and the
\* ones are left-packed.
C3_MaskConsistent ==
    Constructed =>
        /\ DOMAIN self.mask = 0..(self.num_layers - 1)
        /\ \A l \in DOMAIN self.mask :
            /\ DOMAIN self.mask[l] = 0..(self.units \div 2 - 1)
            /\ Ones(self.mask[l]) = self.num_mzis[l]
            /\ \A k \in DOMAIN self.mask[l] :
                self.mask[l][k] = (IF k < self.num_mzis[l] THEN 1 ELSE 0)

\* C3 as amended: in every constructed model (counts non-negative) the mask
\* has shape (num_layers, units div 2), the ones of row l are left-packed
\* below num_mzis[l], and row l holds min(num_mzis[l], units div 2) ones:
\* exactly num_mzis[l] of them when num_mzis[l] <= units div 2, and a row of
\* ones otherwise.
C3_MaskConsistentInRange ==
    Constructed =>
        /\ DOMAIN self.mask = 0..(self.num_layers - 1)
        /\ \A l \in DOMAIN self.mask :
            /\ DOMAIN self.mask[l] = 0..(self.units \div 2 - 1)
            /\ Ones(self.mask[l]) = Min(self.num_mzis[l], self.units \div 2)
            /\ self.num_mzis[l] <= self.units \div 2 => Ones(self.mask[l]) = self.num_mzis[l]
            /\ \A k \in DOMAIN self.mask[l] :
                self.mask[l][k] = (IF k < self.num_mzis[l] THEN 1 ELSE 0)

\* A constructed model with an empty row, a partly filled row and a row whose
\* count exceeds the width.
C3_Witness ==
    /\ Constructed
    /\ call.op = "MeshModel"
    /\ self.units \div 2 = 2
    /\ \E l \in DOMAIN self.mask : self.num_mzis[l] = 0
    /\ \E l \in DOMAIN self.mask : self.num_mzis[l] = 1
    /\ \E l \in DOMAIN self.mask : self.num_mzis[l] > 2

\* C8: RectangularMeshModel(units, num_layers) returns a model whose
\* num_layers is the given value, or units when none is given, whose profile
\* has floor(units/2) at even and floor((units-1)/2) at odd layers and whose
\* mask has shape (num_layers, floor(units/2)); units = 4 with the default
\* gives the profile 2,1,2,1 and the mask rows 11, 10, 11, 10.
C8_Rectangular ==
    (call.op = "RectangularMeshModel" /\ (call.num_layers = <<>> \/ call.num_layers[1] >= 1)) =>
        LET L == IF call.num_layers = <<>> THEN call.units ELSE call.num_layers[1]
        IN  /\ exc = NoExc
            /\ Constructed
            /\ self.num_layers = L
            /\ DOMAIN self.num_mzis = 0..(L - 1)
            /\ \A l \in 0..(L - 1) :
                self.num_mzis[l] =
                    (IF l % 2 = 0 THEN call.units \div 2 ELSE (call.units - 1) \div 2)
            /\ DOMAIN self.mask = 0..(L - 1)
            /\ \A l \in 0..(L - 1) : DOMAIN self.mask[l] = 0..(call.units \div 2 - 1)
            /\ (call.units = 4 /\ call.num_layers = <<>>) =>
                /\ self.num_mzis = [l \in 0..3 |-> IF l % 2 = 0 THEN 2 ELSE 1]
                /\ self.mask = [l \in 0..3 |-> [k \in 0..1 |-> IF l % 2 = 1 /\ k = 1 THEN 0 ELSE 1]]

\* C9: TriangularMeshModel(units) returns a model with 2*units - 3 layers
\* whose profile has 2*units - 3 entries, entry i being (r_i + 1) div 2 for
\* the ramp r = 1..units-1..1, every entry within 1..floor(units/2);
\* units = 4 gives 5 layers and the profile 1,1,2,1,1.
C9_Triangular ==
    call.op = "TriangularMeshModel" =>
        LET N == call.units
            r(i) == IF i <= N - 2 THEN i + 1 ELSE 2 * N - 3 - i
        IN  /\ exc = NoExc
            /\ Constructed
            /\ self.units = N
            /\ self.num_layers = 2 * N - 3
            /\ DOMAIN self.num_mzis = 0..(2 * N - 4)
            /\ \A i \in 0..(2 * N - 4) :
                /\ self.num_mzis[i] = (r(i) + 1) \div 2
                /\ self.num_mzis[i] \in 1..(N \div 2)
            /\ N = 4 => /\ self.num_layers = 5
                        /\ self.num_mzis = [i \in 0..4 |-> IF i = 2 THEN 2 ELSE 1]

\* The triangular mesh of four units has been built.
C9_Witness ==
    call.op = "TriangularMeshModel" /\ call.units = 4 /\ Constructed

\* C10: ButterflyMeshModel(num_layers = k) returns a model with 2^k units
\* and k layers whose mask is 1 in every slot of every layer.
C10_Butterfly ==
    call.op = "ButterflyMeshModel" =>
        /\ exc = NoExc
        /\ Constructed
        /\ self.units = Pow2(call.num_layers)
        /\ self.num_layers = call.num_layers
        /\ \A l \in DOMAIN self.mask : \A k \in DOMAIN self.mask[l] : self.mask[l][k] = 1

(***************************************************************************)
(* Properties of error sampling.                                           *)
(***************************************************************************)
Seeded == Constructed /\ self.bs_error_seed # <<>>

\* C4: with a seed and use_different_errors false, every access of
\* mzi_error_matrices returns the pair the first access returned, whatever
\* the generator state it starts from, and the two halves of the pair are
\* equal.
C4_Reproducible ==
    (Seeded /\ ~self.use_different_errors /\ call.op = "mzi_error_matrices") =>
        /\ ret = first[1].val
        /\ ret[1] = ret[2]

\* A later access that started from another generator state than the first
\* one did, on a model with a visible error (the access has advanced the
\* generator off the seed's state).
C4_Witness ==
    /\ Seeded
    /\ ~self.use_different_errors
    /\ call.op = "mzi_error_matrices"
    /\ call.rng_before # first[1].rng_before
    /\ \E l \in DOMAIN ret[1] : \E k \in DOMAIN ret[1][l] : ret[1][l][k] # 0

\* The masked draw made right after seeding the generator with s.
MaskedDrawAfterSeed(s) ==
    [l \in 0..(self.num_layers - 1) |->
        [k \in 0..(self.units \div 2 - 1) |->
            Normal(Advance(SeedState(s), l * (self.units \div 2) + k))
                * self.bs_error * self.mask[l][k]]]

\* C5: with a seed s, e_left is the masked draw after seeding with s, which
\* is what get_bs_error_matrix(right=False) returns; e_right is the masked
\* draw after seeding with s + 1, which is what
\* get_bs_error_matrix(right=True) returns, on every access when
\* use_different_errors is true, and is e_left when it is false.
C5_SeedOffsets ==
    Seeded =>
        LET s == self.bs_error_seed[1]
        IN  /\ call.op = "mzi_error_matrices" =>
                /\ ret[1] = MaskedDrawAfterSeed(s)
                /\ self.use_different_errors =>
                    ret[2] = MaskedDrawAfterSeed(s + 1) /\ ret[2] = first[1].val[2]
                /\ ~self.use_different_errors => ret[2] = ret[1]
            /\ call.op = "get_bs_error_matrix" =>
                ret = MaskedDrawAfterSeed(IF call.right THEN s + 1 ELSE s)

\* A decorrelated pair whose halves differ has been returned.
C5_Witness ==
    /\ Seeded
    /\ self.use_different_errors
    /\ call.op = "mzi_error_matrices"
    /\ call.rng_before # first[1].rng_before
    /\ ret[1] # ret[2]

ZeroWhereMasked(e) ==
    \A l \in DOMAIN self.mask : \A k \in DOMAIN self.mask[l] :
        self.mask[l][k] = 0 => e[l][k] = 0

\* C6: every error field an accessor returns is 0 at every slot whose mask
\* entry is 0, with or without a seed, for every bs_error and either value of
\* use_different_errors.
C6_ErrorMasked ==
    /\ call.op = "get_bs_error_matrix" => ZeroWhereMasked(ret)
    /\ call.op = "mzi_error_matrices" => ZeroWhereMasked(ret[1]) /\ ZeroWhereMasked(ret[2])

\* An unseeded model with a masked slot and a live slot that carries an
\* error has returned a pair.
C6_Witness ==
    /\ Constructed
    /\ self.bs_error_seed = <<>>
    /\ call.op = "mzi_error_matrices"
    /\ \E l \in DOMAIN self.mask : \E k \in DOMAIN self.mask[l] : self.mask[l][k] = 0
    /\ \E l \in DOMAIN self.mask : \E k \in DOMAIN self.mask[l] : ret[2][l][k] # 0

(***************************************************************************)
(* Properties of concurrent access.                                        *)
(***************************************************************************)

\* What the access of a job returns when nothing else touches the generator
\* between its start in state g and its return.
RunAlone(job, g) ==
    IF job.op = "mzi_error_matrices" THEN mzi_error_matrices(job.m, g).ret
    ELSE get_bs_error_matrix(job.m, job.op = "get_bs_error_matrix_right", g).ret

\* C7: when the accesses are serialized under one mutex, every access that
\* has returned has returned its run-alone array, whatever the generator
\* state it started from.  (The unserialized half of the claim is the state
\* C7_Witness.)
C7_SerializedRunAlone ==
    serialized =>
        \A t \in Threads : pc[t] \in {"unlock", "done"} =>
            \A g \in RngStates : loc[t].value = RunAlone(loc[t], g)

\* Without serialization, an access has returned an array that differs from
\* its run-alone array.
C7_Witness ==
    /\ ~serialized
    /\ \E t \in Threads :
        /\ pc[t] = "done"
        /\ \A g \in RngStates : loc[t].value # RunAlone(loc[t], g)

(***************************************************************************)
(* Properties of the permuting rectangular builder and its layer.          *)
(***************************************************************************)

\* A call that asks for 'haar_prm' together with a tunable_layers_per_block.
IncompatibleRequest ==
    /\ call.op \in {"PermutingRectangularMeshModel", "PRM"}
    /\ call.theta_init_name = "haar_prm"
    /\ call.tunable_layers_per_block # <<>>

\* C11: asking for the 'haar_prm' theta initializer together with a
\* tunable_layers_per_block that is not None is rejected with the
\* incompatible-configuration error by the PermutingRectangular builder and
\* by the PRM layer alike, and no mesh model is produced.
C11_IncompatibleRejected ==
    IncompatibleRequest =>
        /\ exc = Raise("NotImplementedError", 80)
        /\ obj = <<>>

====
